---- MODULE Spec2Model ----
(***************************************************************************)
(* mergeish: one command line invocation after another over a workspace of *)
(* NRepos repositories.  The on-disk state of the repositories (and the    *)
(* pull request of each repository's current branch on the hosting side)   *)
(* persists between invocations; everything else is per invocation.        *)
(*                                                                         *)
(* The repository driver (git and gh run as child processes) is modelled   *)
(* by what the tools do to that state; a call that can fail for reasons    *)
(* outside the program (network, permissions, conflicts) fails             *)
(* nondeterministically and then changes nothing.                          *)
(***************************************************************************)
EXTENDS Integers, Sequences, FiniteSets, TLC

\* ---------------------------------------------------------------- bounds
NRepos == 2

Repos == 1..NRepos

\* the branch names in play; DefaultBranch is what a fresh clone checks out
Branches == {"main", "feat"}
DefaultBranch == "main"

\* a pointer to no repository (the zero value of Result.Repo)
NoRepo == 0

\* the numbers the hosting side gives its pull requests
PRNumbers == {"#1", "#2"}

\* the pull request the hosting side holds for the current branch, if any
PRStates == {"none"} \cup PRNumbers

\* the state gh reports for a pull request it finds: it changes on the
\* hosting side (a review merges it, somebody closes or reopens it)
PRRecords == {"OPEN", "CLOSED", "MERGED"}

\* ------------------------------------------------------- repository state
\* cloned    the directory exists and git recognises it (Repo.IsCloned)
\* branch    git rev-parse --abbrev-ref HEAD
\* branches  the local branches (git rev-parse --verify name succeeds)
\* pr        the pull request gh finds for the current branch
\* The working tree and the index are not part of it: files are edited and
\* staged outside the program, so what git finds there is open at every call.
NotClonedState ==
    [cloned |-> FALSE, branch |-> "", branches |-> {}, pr |-> "none"]

ClonedStates ==
    { d \in [cloned : {TRUE}, branch : Branches, branches : SUBSET Branches,
             pr : PRStates] :
        d.branch \in d.branches }

RepoStates == {NotClonedState} \cup ClonedStates

\* ------------------------------------------------------------------ state
VARIABLES
    cfg,          \* Config.Repos of the configuration file
    handles,      \* Workspace.Repos: empty while no workspace is loaded
    loadErr,      \* the error Load returned
    commits,      \* what GetBranchCommits returns in each repository
    flags,        \* --infer and --body of pr create
    body,         \* the body prCreateCmd hands to CreatePRs
    prev,         \* the reference branch the check before this one returned
    diverged,     \* a branch creation left the repositories on two branches
    parallel,     \* Workspace.Parallel
    numbers,      \* the numbers the hosting side gives new pull requests
    disk,         \* the state of each repository
    was,          \* the state of each repository when the invocation began
    cmd,          \* the command of the running invocation
    pc,           \* where the invocation's main goroutine is
    idx,          \* the index of the loop the main goroutine is in
    firstBranch,  \* CheckBranchConsistency's locals
    consistent,
    checkErr,     \* CheckBranchConsistency returned an error
    reply,        \* what the operator answered to the force push question
    results,      \* the result list of the fan-out
    unit,         \* where the goroutine of each repository is
    wg,           \* the WaitGroup's counter
    runs,         \* how often the closure was invoked on each handle
    ret,          \* what the closure returned on each handle
    log,          \* the driver calls made on each repository, in order
    lines,        \* the per-repository lines printed
    exit          \* the exit status: -1 while running

vars == <<cfg, handles, loadErr, commits, flags, body, prev, diverged, parallel, numbers, disk, was, cmd, pc, idx, firstBranch, consistent, checkErr, reply,
          results, unit, wg, runs, ret, log, lines, exit>>

\* ------------------------------------------------------------ the driver
IsCloned(d) == d.cloned

BranchExists(d, name) == d.cloned /\ name \in d.branches

\* git clone url dir: a fresh clone is on the remote's default branch
DrvClone(d) ==
    [cloned |-> TRUE, branch |-> DefaultBranch, branches |-> {DefaultBranch},
     pr |-> d.pr]

\* HEAD moves to name; the pull request of another branch is whatever the
\* hosting side holds for it
DrvSwitched(d, name) ==
    { [d EXCEPT !.branch = name, !.branches = @ \cup {name}, !.pr = p] :
        p \in (IF name = d.branch THEN {d.pr} ELSE {"none"} \cup numbers) }

\* git checkout name: only an existing branch can be switched to
DrvCheckout(d, name) ==
    IF BranchExists(d, name) THEN DrvSwitched(d, name) ELSE {}

\* (mutant) the branch is created and HEAD stays where it is
DrvCheckoutNewBranchNoSwitch(d, name) ==
    IF d.cloned /\ ~BranchExists(d, name)
    THEN {[d EXCEPT !.branches = @ \cup {name}]}
    ELSE {}

\* git checkout -b name: only a new name can be created
DrvCheckoutNewBranch(d, name) ==
    IF d.cloned /\ ~BranchExists(d, name) THEN DrvSwitched(d, name) ELSE {}

\* git branch -d name: never the current branch, never a missing one
DrvDeleteBranch(d, name) ==
    IF BranchExists(d, name) /\ name # d.branch
    THEN {[d EXCEPT !.branches = @ \ {name}]}
    ELSE {}

\* git add -A, git commit -m: neither moves HEAD to another branch
DrvAddAll(d) == IF d.cloned THEN {d} ELSE {}

DrvCommit(d) == IF d.cloned THEN {d} ELSE {}

\* git diff --cached --name-only: empty or not
DrvHasStagedChanges(d) == IF d.cloned THEN BOOLEAN ELSE {}

\* gh pr create: the hosting side numbers the new pull request
DrvCreatePR(d) ==
    IF d.cloned THEN {[d EXCEPT !.pr = n] : n \in numbers} ELSE {}

\* gh pr close: needs a pull request for the branch
DrvClosePR(d) == IF d.pr # "none" THEN {d} ELSE {}

\* a PRInfo, and the nil pointer
PRInfo(number, state) == [Number |-> number, State |-> state]
NilPR == PRInfo("none", "")

\* git.Status: the snapshot statusCmd and commitCmd read
NilStatus == [ok |-> FALSE, Branch |-> "", HasChanges |-> FALSE]
DrvStatus(d) ==
    { [ok |-> TRUE, Branch |-> d.branch, HasChanges |-> h] :
        h \in BOOLEAN }

\* --------------------------------------------------- per-repository work
\* One outcome of the per-repository closure of a workflow: the repository
\* state it leaves, the driver calls it made, in order, and the fields of
\* the result it produces (Result, StatusResult, GitResult, PRResult; a
\* field the result type does not have keeps its zero value).
Outcome(d, calls, err, status, pr, existed) ==
    [d |-> d, calls |-> calls, Error |-> err, Status |-> status, PR |-> pr,
     Existed |-> existed, Output |-> ""]

O(d, calls, err) == Outcome(d, calls, err, NilStatus, NilPR, FALSE)

\* a driver call that may fail for outside reasons: it succeeds into one of
\* the states of S, or fails and leaves d as it is
Fallible(d, S, calls) ==
    {O(s, calls, "nil") : s \in S} \cup {O(d, calls, "driver")}

NotCloned(d) == {O(d, <<"IsCloned">>, "not cloned")}

\* (mutant) Clone without the IsCloned test
CloneOpAlways(d) == Fallible(d, {DrvClone(d)}, <<"IsCloned", "Clone">>)

CloneOp(d) ==
    IF IsCloned(d)
    THEN {O(d, <<"IsCloned">>, "nil")}
    ELSE Fallible(d, {DrvClone(d)}, <<"IsCloned", "Clone">>)

PullOp(d) ==
    IF ~IsCloned(d) THEN NotCloned(d)
    ELSE Fallible(d, {d}, <<"IsCloned", "Pull">>)

\* (mutant) Push without the IsCloned test
PushOpUnchecked(d) == Fallible(d, {d}, <<"Push">>)

PushOp(d) ==
    IF ~IsCloned(d) THEN NotCloned(d)
    ELSE Fallible(d, {d}, <<"IsCloned", "Push">>)

\* (mutant) an existing branch is no error
CreateBranchOpLenient(d, name) ==
    IF ~IsCloned(d) THEN NotCloned(d)
    ELSE IF BranchExists(d, name)
    THEN {O(d, <<"IsCloned", "BranchExists">>, "nil")}
    ELSE Fallible(d, DrvCheckoutNewBranch(d, name),
                  <<"IsCloned", "BranchExists", "CheckoutNewBranch">>)

CreateBranchOp(d, name) ==
    IF ~IsCloned(d) THEN NotCloned(d)
    ELSE IF BranchExists(d, name)
    THEN {O(d, <<"IsCloned", "BranchExists">>, "already exists")}
    ELSE Fallible(d, DrvCheckoutNewBranch(d, name),
                  <<"IsCloned", "BranchExists", "CheckoutNewBranch">>)

\* (mutant) the current branch is not looked at
DeleteBranchOpUnchecked(d, name) ==
    IF ~IsCloned(d) THEN NotCloned(d)
    ELSE Fallible(d, DrvDeleteBranch(d, name), <<"IsCloned", "DeleteBranch">>)

DeleteBranchOp(d, name) ==
    IF ~IsCloned(d) THEN NotCloned(d)
    ELSE {O(d, <<"IsCloned", "CurrentBranch">>, "driver")} \cup
         (IF d.branch = name
          THEN {O(d, <<"IsCloned", "CurrentBranch">>,
                  "cannot delete current branch")}
          ELSE Fallible(d, DrvDeleteBranch(d, name),
                        <<"IsCloned", "CurrentBranch", "DeleteBranch">>))

\* (mutant) the branch is always created
CheckoutOpCreateOnly(d, name) ==
    IF ~IsCloned(d) THEN NotCloned(d)
    ELSE Fallible(d, DrvCheckoutNewBranch(d, name),
                  <<"IsCloned", "BranchExists", "CheckoutNewBranch">>)

\* (mutant) a missing branch is not created
CheckoutOpExistingOnly(d, name) ==
    IF ~IsCloned(d) THEN NotCloned(d)
    ELSE Fallible(d, DrvCheckout(d, name),
                  <<"IsCloned", "BranchExists", "Checkout">>)

CheckoutOp(d, name) ==
    IF ~IsCloned(d) THEN NotCloned(d)
    ELSE IF BranchExists(d, name)
    THEN Fallible(d, DrvCheckout(d, name),
                  <<"IsCloned", "BranchExists", "Checkout">>)
    ELSE Fallible(d, DrvCheckoutNewBranch(d, name),
                  <<"IsCloned", "BranchExists", "CheckoutNewBranch">>)

\* (mutant) the staging comes after the question
CommitOpStageLast(d, addAll, message) ==
    IF ~IsCloned(d) THEN NotCloned(d)
    ELSE Fallible(d, DrvCommit(d),
                  <<"IsCloned", "HasStagedChanges", "yes", "AddAll", "Commit",
                    message>>)

\* (mutant) Commit without asking for staged changes
CommitOpAlways(d, addAll, message) ==
    IF ~IsCloned(d) THEN NotCloned(d)
    ELSE Fallible(d, DrvCommit(d), <<"IsCloned", "Commit", message>>)

\* the log holds, after HasStagedChanges, its answer ("yes" or "no") and,
\* after Commit, the message it was given
CommitOp(d, addAll, message) ==
    IF ~IsCloned(d) THEN NotCloned(d)
    ELSE LET pre   == IF addAll THEN <<"IsCloned", "AddAll">>
                                ELSE <<"IsCloned">>
             probe == Append(pre, "HasStagedChanges")
         IN  (IF addAll THEN {O(d, pre, "driver")} ELSE {}) \cup
             UNION { {O(d1, probe, "driver")} \cup
                     UNION { IF ~hasChanges
                             THEN {O(d1, Append(probe, "no"), "nil")}
                             ELSE Fallible(d1, DrvCommit(d1),
                                           probe \o
                                           <<"yes", "Commit", message>>) :
                             hasChanges \in DrvHasStagedChanges(d1) } :
                     d1 \in (IF addAll THEN DrvAddAll(d) ELSE {d}) }

\* (mutant) a failed Status hands back a snapshot with its error
StatusOpBoth(d) ==
    {Outcome(d, <<"IsCloned">>, "driver", st, NilPR, FALSE) :
        st \in DrvStatus(d)}

\* Repo.Status
RepoStatus(d) ==
    IF ~IsCloned(d)
    THEN {Outcome(d, <<"IsCloned">>, "repository not cloned", NilStatus,
                  NilPR, FALSE)}
    ELSE {Outcome(d, <<"IsCloned", "Status">>, "nil", st, NilPR, FALSE) :
            st \in DrvStatus(d)} \cup
         {O(d, <<"IsCloned", "Status">>, "driver")}

StatusOp(d) == RepoStatus(d)

\* the commands of the passthrough's help text only read the repository
\* what the git process wrote to stdout and stderr: nothing or something
Outputs == {"", "text"}

\* RunRaw hands back both streams whether or not the command failed
RunGitOp(d) ==
    IF ~IsCloned(d) THEN NotCloned(d)
    ELSE {[o EXCEPT !.Output = x] :
            o \in Fallible(d, {d}, <<"IsCloned", "RunGit">>), x \in Outputs}

\* Git.GetPR: the record, nothing when gh finds no pull request, or an error
GetPR(d, calls) ==
    {Outcome(d, Append(calls, "GetPR"), "nil", NilStatus, p, FALSE) :
        p \in (IF d.pr = "none" THEN {NilPR}
                ELSE {PRInfo(d.pr, s) : s \in PRRecords})} \cup
    {O(d, Append(calls, "GetPR"), "driver")}

GetPRsOp(d) ==
    IF ~IsCloned(d) THEN NotCloned(d)
    ELSE GetPR(d, <<"IsCloned">>)

\* Git.CreatePR: gh pr create, then GetPR for the record; the lookup may
\* not find the pull request just created (gh answers "no pull requests
\* found"), and then GetPR returns nil, nil
CreatePR(d, calls) ==
    {O(d, Append(calls, "CreatePR"), "driver")} \cup
    UNION { GetPR(c, Append(calls, "CreatePR")) \cup
            {O(c, calls \o <<"CreatePR", "GetPR">>, "nil")} :
            c \in DrvCreatePR(d) }

\* (mutant) a pull request that is no longer open does not count
CreatePRsOpOpenOnly(d) ==
    IF ~IsCloned(d) THEN NotCloned(d)
    ELSE {O(d, <<"IsCloned", "GetPR">>, "checking existing PR")} \cup
         (IF d.pr # "none"
          THEN {Outcome(d, <<"IsCloned", "GetPR">>, "nil", NilStatus,
                        PRInfo(d.pr, "OPEN"), TRUE)} \cup
               CreatePR(d, <<"IsCloned", "GetPR">>)
          ELSE CreatePR(d, <<"IsCloned", "GetPR">>))

\* (mutant) no lookup before the creation
CreatePRsOpNoLookup(d) ==
    IF ~IsCloned(d) THEN NotCloned(d)
    ELSE CreatePR(d, <<"IsCloned">>)

CreatePRsOp(d) ==
    IF ~IsCloned(d) THEN NotCloned(d)
    ELSE {O(d, <<"IsCloned", "GetPR">>, "checking existing PR")} \cup
         (IF d.pr # "none"
          THEN {Outcome(d, <<"IsCloned", "GetPR">>, "nil", NilStatus,
                        PRInfo(d.pr, s), TRUE) : s \in PRRecords}
          ELSE CreatePR(d, <<"IsCloned", "GetPR">>))

ClosePRsOp(d) ==
    IF ~IsCloned(d) THEN NotCloned(d)
    ELSE Fallible(d, DrvClosePR(d), <<"IsCloned", "ClosePR">>)

\* ------------------------------------------------------------- commands
\* A command line: its name, the branch name it was given (branch
\* subcommands), its flag (--force of push, --all of commit), its -m
\* (commit), and whether the argument the command requires was given.
Command(name, branch, flag) ==
    [name |-> name, branch |-> branch, flag |-> flag, message |-> "",
     given |-> TRUE]

\* the non-empty commit messages in play
Messages == {"m1", "m2"}

CommitCommand(flag, message) ==
    [Command("commit", "", flag) EXCEPT !.message = message]

NoCommand == Command("", "", FALSE)

Commands ==
    {Command(n, "", FALSE) :
        n \in {"clone", "pull", "branch-list", "status", "git", "pr-status",
               "pr-create", "pr-close"}} \cup
    {Command("push", "", f) : f \in BOOLEAN} \cup
    {CommitCommand(f, m) : f \in BOOLEAN, m \in Messages} \cup
    {Command(n, b, FALSE) :
        n \in {"branch-create", "branch-delete", "branch-checkout"},
        b \in Branches}

\* the commands that refuse to run on a missing argument: the -m of commit,
\* the -t of pr create, the arguments of git, the name of branch -d and
\* branch --checkout
Validated == {"commit", "pr-create", "git", "branch-delete", "branch-checkout"}

\* (mutant) no command calls the check
CheckedNone == {}

\* the commands that call CheckBranchConsistency before their fan-out
Checked == {"pull", "push", "commit", "pr-status", "pr-create", "pr-close"}

\* (mutant) push only warns
HardCheckedNoPush == {"commit", "pr-create"}

\* (mutant) pr status refuses to run
HardCheckedPRStatus == {"push", "commit", "pr-create", "pr-status"}

\* (mutant) every command only warns
HardCheckedNone == {}

\* the commands that return an error when the check says inconsistent; the
\* others print a warning and go on
HardChecked == {"push", "commit", "pr-create"}

\* the per-repository closure of the Workspace method the command calls
Op(c, d) ==
    CASE c.name = "clone"           -> CloneOp(d)
      [] c.name = "pull"            -> PullOp(d)
      [] c.name = "push"            -> PushOp(d)
      [] c.name = "branch-list"     -> StatusOp(d)
      [] c.name = "branch-create"   -> CreateBranchOp(d, c.branch)
      [] c.name = "branch-delete"   -> DeleteBranchOp(d, c.branch)
      [] c.name = "branch-checkout" -> CheckoutOp(d, c.branch)
      [] c.name = "commit"          -> CommitOp(d, c.flag, c.message)
      [] c.name = "status"          -> StatusOp(d)
      [] c.name = "git"             -> RunGitOp(d)
      [] c.name = "pr-status"       -> GetPRsOp(d)
      [] c.name = "pr-create"       -> CreatePRsOp(d)
      [] c.name = "pr-close"        -> ClosePRsOp(d)

\* the zero value of a result slot, as make() leaves it
ZeroResult ==
    [Repo |-> NoRepo, Error |-> "nil", Status |-> NilStatus, PR |-> NilPR,
     Existed |-> FALSE, Output |-> ""]

\* the result a unit stores for handle r
MkResult(r, o) ==
    [Repo |-> r, Error |-> o.Error, Status |-> o.Status, PR |-> o.PR,
     Existed |-> o.Existed, Output |-> o.Output]

\* (mutant) every unit writes the first slot
SlotOfFirst(i) == 1

\* (mutant) every unit writes its neighbour's slot
SlotOfNext(i) == (i % NRepos) + 1

\* the slot the unit of handle i writes
SlotOf(i) == i

\* ------------------------------------------------- config and workspace
\* the directory of the i-th repository of the workspace
Paths == <<"a", "b", "c", "d">>

RepoConfig(url, path) == [URL |-> url, Path |-> path]

\* the configuration file of the workspace the commands run in
WorkspaceConfig == [i \in Repos |-> RepoConfig("url", Paths[i])]

\* the error of a repository descriptor, and no error
ConfigError(i, msg) == [repo |-> i, msg |-> msg]
NoError == ConfigError(-1, "nil")

\* Config.Validate: no error, or the error of the first repository the loop
\* rejects (repo is the index the message names, counted from 0)
RECURSIVE ValidateFrom(_, _, _)
ValidateFrom(repos, i, seen) ==
    IF i > Len(repos) THEN NoError
    ELSE IF repos[i].URL = ""
         THEN ConfigError(i - 1, "url is required")
    ELSE IF repos[i].Path = ""
         THEN ConfigError(i - 1, "path is required")
    ELSE IF repos[i].Path \in seen
         THEN ConfigError(i - 1, "duplicate path")
    ELSE ValidateFrom(repos, i + 1, seen \cup {repos[i].Path})

\* (mutant) no test for a path seen before
RECURSIVE ValidateNoDuplicates(_)
ValidateNoDuplicates(repos) ==
    IF repos = <<>> THEN NoError
    ELSE IF repos[Len(repos)].URL = "" \/ repos[Len(repos)].Path = ""
         THEN LET e == ValidateNoDuplicates(SubSeq(repos, 1, Len(repos) - 1))
              IN  IF e # NoError THEN e
                  ELSE ConfigError(Len(repos) - 1,
                                   IF repos[Len(repos)].URL = ""
                                   THEN "url is required"
                                   ELSE "path is required")
    ELSE ValidateNoDuplicates(SubSeq(repos, 1, Len(repos) - 1))

Validate(repos) == ValidateFrom(repos, 1, {})

\* (mutant) the handles are built from the last descriptor to the first
NewReversed(repos) ==
    [i \in 1..Len(repos) |-> [Config |-> repos[Len(repos) + 1 - i]]]

\* workspace.New: handle i is built from descriptor i
New(repos) == [i \in 1..Len(repos) |-> [Config |-> repos[i]]]

\* what Git.GetBranchCommits returns: the subject lines, or an error
CommitList(list) == [ok |-> TRUE, list |-> list]
NoCommitList == [ok |-> FALSE, list |-> <<>>]

\* nothing loaded, nothing inferred, no check made yet
Unloaded ==
    /\ handles = <<>>
    /\ loadErr = NoError
    /\ commits = [r \in Repos |-> CommitList(<<>>)]
    /\ flags = [infer |-> FALSE, body |-> <<>>]
    /\ body = <<>>
    /\ prev = ""
    /\ diverged = FALSE

\* no invocation is running
Idle ==
    /\ was = disk
    /\ cmd = NoCommand
    /\ pc = "idle"
    /\ idx = 0
    /\ firstBranch = ""
    /\ consistent = TRUE
    /\ checkErr = FALSE
    /\ reply = ""
    /\ results = <<>>
    /\ unit = [r \in Repos |-> "none"]
    /\ wg = 0
    /\ runs = [r \in Repos |-> 0]
    /\ ret = [r \in Repos |-> "nil"]
    /\ log = [r \in Repos |-> <<>>]
    /\ lines = <<>>
    /\ exit = -1

\* a run in which the hosting side numbers pull requests from ns
InitWith(ns) ==
    /\ cfg = WorkspaceConfig
    /\ Unloaded
    /\ parallel \in BOOLEAN
    /\ numbers = ns
    /\ disk \in [Repos -> {d \in RepoStates : d.pr \in {"none"} \cup ns}]
    /\ Idle

\* every command, against a hosting side that holds no pull request and
\* gives none (gh pr view finds nothing, gh pr create fails); SpecPR and
\* SpecResults run against one that does
Init == InitWith({})

\* (mutant) the check starts from the reference it found the last time
FirstBranchCached == firstBranch

\* var firstBranch string: the check starts without a reference
FirstBranchAtCall == ""

\* what a new invocation starts from: nothing but the repositories and the
\* configuration outlives a process
Reset(c) ==
    /\ cmd' = c
    /\ idx' = IF c = NoCommand THEN 0 ELSE 1
    /\ firstBranch' = FirstBranchAtCall
    /\ consistent' = TRUE
    /\ checkErr' = FALSE
    /\ reply' = ""
    /\ results' = <<>>
    /\ unit' = [r \in Repos |-> "none"]
    /\ wg' = 0
    /\ runs' = [r \in Repos |-> 0]
    /\ ret' = [r \in Repos |-> "nil"]
    /\ log' = [r \in Repos |-> <<>>]
    /\ lines' = <<>>
    /\ was' = disk
    /\ handles' = IF c = NoCommand \/ ~c.given THEN <<>> ELSE New(cfg)
    /\ UNCHANGED <<cfg, loadErr, commits, flags, body, parallel, numbers,
                   disk>>

Fresh(c) == Reset(c) /\ UNCHANGED <<prev, diverged>>

\* a command line with its arguments: RunE up to the consistency check
Start(c) ==
    /\ pc = "idle"
    /\ Fresh(c)
    /\ pc' = IF c.name \in Checked THEN "check" ELSE "dispatch"
    /\ exit' = -1

\* a command line without the argument the command requires
Reject(name) ==
    /\ pc = "idle"
    /\ Fresh([Command(name, "", FALSE) EXCEPT !.given = FALSE])
    /\ pc' = "exit"
    /\ exit' = 1

\* ------------------------------------------- Workspace.CheckBranchConsistency
Logged(r, calls) == [log EXCEPT ![r] = @ \o calls]

\* the loop body's update of firstBranch and consistent for a branch read
\* (mutant) the scan takes the last branch read for the reference
NextFirstLast(first, branch) == branch

NextFirst(first, branch) == IF first = "" THEN branch ELSE first

\* (mutant) a mismatch is not recorded
NextConsistentKept(first, cons, branch) == cons

NextConsistent(first, cons, branch) ==
    IF first # "" /\ branch # first THEN FALSE ELSE cons

\* the check as a function of the repositories, every branch read
\* succeeding: its locals after the first n handles
RECURSIVE CheckScan(_, _)
CheckScan(dsk, n) ==
    IF n = 0 THEN [first |-> "", cons |-> TRUE]
    ELSE LET p == CheckScan(dsk, n - 1)
         IN  IF ~IsCloned(dsk[n]) THEN p
             ELSE [first |-> NextFirst(p.first, dsk[n].branch),
                   cons  |-> NextConsistent(p.first, p.cons, dsk[n].branch)]

CheckBranchConsistency(dsk) == CheckScan(dsk, NRepos)

\* (mutant) the command goes on after a check that returned an error
CheckFailedGoesOn == "dispatch"

\* where a command is after a check that returned an error: it returns it
CheckFailed == "exit"

\* one iteration of the loop over w.Repos
CheckStep ==
    /\ pc = "check"
    /\ idx <= NRepos
    /\ LET d == disk[idx] IN
       IF ~IsCloned(d)
       THEN /\ log' = Logged(idx, <<"IsCloned">>)
            /\ idx' = idx + 1
            /\ UNCHANGED <<pc, exit, firstBranch, consistent, checkErr>>
       ELSE /\ log' = Logged(idx, <<"IsCloned", "CurrentBranch">>)
            /\ \/ \* CurrentBranch fails: return "", false, err
                  /\ checkErr' = TRUE
                  /\ firstBranch' = ""
                  /\ consistent' = FALSE
                  /\ pc' = CheckFailed
                  /\ exit' = 1
                  /\ UNCHANGED idx
               \/ /\ firstBranch' = NextFirst(firstBranch, d.branch)
                  /\ consistent' =
                         NextConsistent(firstBranch, consistent, d.branch)
                  /\ idx' = idx + 1
                  /\ UNCHANGED <<pc, exit, checkErr>>
    /\ UNCHANGED <<cfg, handles, loadErr, commits, flags, body, prev, diverged,
                   parallel, numbers, disk, was, cmd, reply, results, unit, wg,
                   runs, ret, lines>>

\* the check returned: what the command does with (branch, consistent)
CheckDone ==
    /\ pc = "check"
    /\ idx = NRepos + 1
    /\ IF ~consistent /\ cmd.name \in HardChecked
       THEN pc' = "exit" /\ exit' = 1
       ELSE /\ pc' = IF cmd.name = "push" /\ cmd.flag THEN "prompt"
                                                      ELSE "dispatch"
            /\ UNCHANGED exit
    /\ UNCHANGED <<cfg, handles, loadErr, commits, flags, body, prev, diverged,
                   parallel, numbers, disk, was, cmd, idx, firstBranch, consistent,
                   checkErr, reply, results, unit, wg, runs, ret, log, lines>>

\* push --force asks; anything but y or Y, or a failed read, aborts
Answers == {"y", "Y", "n", "error"}

\* (mutant) any answer that was read confirms
ConfirmsAny(answer) == answer # "error"

\* err == nil and response is "y" or "Y"
Confirms(answer) == answer \in {"y", "Y"}

Prompt(answer) ==
    /\ pc = "prompt"
    /\ reply' = answer
    /\ IF Confirms(answer)
       THEN pc' = "dispatch" /\ UNCHANGED exit
       ELSE pc' = "exit" /\ exit' = 0
    /\ UNCHANGED <<cfg, handles, loadErr, commits, flags, body, prev, diverged,
                   parallel, numbers, disk, was, cmd, idx, firstBranch, consistent,
                   checkErr, results, unit, wg, runs, ret, log, lines>>

\* ------------------------------------------------------------ the fan-out
\* results := make([]Result, len(w.Repos))
Dispatch ==
    /\ pc = "dispatch"
    /\ results' = [i \in Repos |-> ZeroResult]
    /\ idx' = 1
    /\ pc' = IF parallel THEN "spawn" ELSE "seq"
    /\ UNCHANGED <<cfg, handles, loadErr, commits, flags, body, prev, diverged,
                   parallel, numbers, disk, was, cmd, firstBranch, consistent, checkErr, reply,
                   unit, wg, runs, ret, log, lines, exit>>

\* (mutant) every handle's driver works in the first repository
DirOfShared(i) == 1

\* the repository handle i works in: the directory its descriptor names
DirOf(i) == CHOOSE r \in Repos : Paths[r] = handles[i].Config.Path

\* the closure runs on handle i and its result goes to a slot
RunOn(i, slot) ==
    \E o \in Op(cmd, disk[DirOf(i)]) :
        /\ disk' = [disk EXCEPT ![DirOf(i)] = o.d]
        /\ runs' = [runs EXCEPT ![i] = @ + 1]
        /\ ret' = [ret EXCEPT ![i] = o.Error]
        /\ log' = Logged(i, o.calls)
        /\ results' = [results EXCEPT ![slot] = MkResult(i, o)]

\* (mutant) the sequential loop stops at the first error
SeqNextFailFast(i, err) == IF err # "nil" THEN NRepos + 1 ELSE i + 1

\* (mutant) the loop leaves out every other handle
SeqNextSkipping(i, err) == i + 2

\* the sequential loop goes on to the next handle whatever fn returned
SeqNext(i, err) == i + 1

\* sequential: for i, r := range w.Repos { results[i] = ... fn(r) }

SeqStep ==
    /\ pc = "seq"
    /\ idx <= NRepos
    /\ unit[idx] = "none"
    /\ RunOn(idx, idx)
    /\ idx' = SeqNext(idx, ret'[idx])
    /\ UNCHANGED <<cfg, handles, loadErr, commits, flags, body, prev, diverged,
                   parallel, numbers, was, cmd, pc, firstBranch, consistent, checkErr, reply,
                   unit, wg, lines, exit>>

SeqReturn ==
    /\ pc = "seq"
    /\ idx = NRepos + 1
    /\ pc' = "report"
    /\ UNCHANGED <<cfg, handles, loadErr, commits, flags, body, prev, diverged,
                   parallel, numbers, disk, was, cmd, idx, firstBranch, consistent,
                   checkErr, reply, results, unit, wg, runs, ret, log, lines, exit>>

\* parallel: wg.Add(1); go func(i, r) {...}(i, r)
Spawn ==
    /\ pc = "spawn"
    /\ idx <= NRepos
    /\ wg' = wg + 1
    /\ unit' = [unit EXCEPT ![idx] = "ready"]
    /\ idx' = idx + 1
    /\ pc' = IF idx = NRepos THEN "wait" ELSE "spawn"
    /\ UNCHANGED <<cfg, handles, loadErr, commits, flags, body, prev, diverged,
                   parallel, numbers, disk, was, cmd, firstBranch, consistent, checkErr, reply,
                   results, runs, ret, log, lines, exit>>

\* the goroutine of handle i: results[i] = Result{Repo: r, Error: fn(r)}
UnitRun(i) ==
    /\ unit[i] = "ready"
    /\ RunOn(i, SlotOf(i))
    /\ unit' = [unit EXCEPT ![i] = "wrote"]
    /\ UNCHANGED <<cfg, handles, loadErr, commits, flags, body, prev, diverged,
                   parallel, numbers, was, cmd, pc, idx, firstBranch, consistent,
                   checkErr, reply, wg, lines, exit>>

\* the goroutine of handle i: the deferred wg.Done()
UnitDone(i) ==
    /\ unit[i] = "wrote"
    /\ wg' = wg - 1
    /\ unit' = [unit EXCEPT ![i] = "done"]
    /\ UNCHANGED <<cfg, handles, loadErr, commits, flags, body, prev, diverged,
                   parallel, numbers, disk, was, cmd, pc, idx, firstBranch, consistent,
                   checkErr, reply, results, runs, ret, log, lines, exit>>

\* (mutant) no barrier: Wait returns at once
WaitReturnsAtOnce == TRUE

\* (mutant) Wait gives up on a unit whose driver call does not return
WaitReturnsOnTimeout == wg = 0 \/ \E r \in Repos : unit[r] = "hung"

\* wg.Wait() returns when the counter is zero
WaitReturns == wg = 0

Wait ==
    /\ pc = "wait"
    /\ WaitReturns
    /\ pc' = "report"
    /\ UNCHANGED <<cfg, handles, loadErr, commits, flags, body, prev, diverged,
                   parallel, numbers, disk, was, cmd, idx, firstBranch, consistent,
                   checkErr, reply, results, unit, wg, runs, ret, log, lines, exit>>

\* -------------------------------------------------------------- the report
\* workspace.HasErrors, and the hasErrors flag of the commands' loops
HasErrors(res) == \E i \in DOMAIN res : res[i].Error # "nil"

\* the line a command prints for one result: <<>> when it prints none.
\* st is what the Status call commitCmd makes on the handle returned.
Line(c, res, d, st) ==
    LET fail == <<[repo |-> res.Repo, kind |-> "fail"]>>
        ok   == <<[repo |-> res.Repo, kind |-> "ok"]>>
        as(k) == <<[repo |-> res.Repo, kind |-> k]>>
    IN  CASE c.name = "clone" ->
               IF res.Error # "nil" THEN fail
               ELSE IF IsCloned(d) THEN ok ELSE <<>>
          [] c.name = "commit" ->
               IF res.Error # "nil" THEN fail
               ELSE IF st.ok /\ ~st.HasChanges
                    THEN as("committed") ELSE as("no changes")
          [] c.name = "pr-create" ->
               IF res.Error # "nil" THEN fail
               ELSE IF res.PR # NilPR
                    THEN (IF res.Existed THEN as("exists") ELSE as("created"))
                    ELSE <<>>
          [] c.name = "pr-status" ->
               IF res.Error # "nil" THEN fail
               ELSE IF res.PR = NilPR THEN as("no PR") ELSE as("pr")
          [] OTHER ->
               IF res.Error # "nil" THEN fail ELSE ok

RECURSIVE ReportLines(_, _, _, _, _)
ReportLines(c, res, dsk, st, n) ==
    IF n = 0 THEN <<>>
    ELSE ReportLines(c, res, dsk, st, n - 1) \o
         Line(c, res[n], dsk[n], st[n])

\* the commands that return nil whatever the results hold
AlwaysZero == {"branch-list", "status", "pr-status"}

ExitStatus(c, res) ==
    IF c.name \notin AlwaysZero /\ HasErrors(res) THEN 1 ELSE 0

\* the driver calls the report loop itself makes on a handle
ReportCalls(c, res) ==
    CASE c.name = "clone" /\ res.Error = "nil"  -> <<"IsCloned">>
      [] c.name = "commit" /\ res.Error = "nil" -> <<"IsCloned", "Status">>
      [] OTHER -> <<>>

\* what the Status call of commitCmd's loop returns for a result
ReportStatus(c, res, d) ==
    IF c.name = "commit" /\ res.Error = "nil"
    THEN {o.Status : o \in RepoStatus(d)}
    ELSE {NilStatus}

\* one such value for each of the first n results
RECURSIVE ReportStatuses(_, _, _, _)
ReportStatuses(c, res, dsk, n) ==
    IF n = 0 THEN {<<>>}
    ELSE {Append(st, x) : st \in ReportStatuses(c, res, dsk, n - 1),
                          x \in ReportStatus(c, res[n], dsk[n])}

\* the process ends; the next command line starts a new one
Finish ==
    /\ pc = "exit"
    /\ Fresh(NoCommand)
    /\ pc' = "idle"
    /\ exit' = -1

\* the loop over the results and the command's return
Report ==
    /\ pc = "report"
    /\ \E st \in ReportStatuses(cmd, results, disk, NRepos) :
          lines' = ReportLines(cmd, results, disk, st, NRepos)
    /\ log' = [r \in Repos |-> log[r] \o ReportCalls(cmd, results[r])]
    /\ exit' = ExitStatus(cmd, results)
    /\ pc' = "exit"
    /\ UNCHANGED <<cfg, handles, loadErr, commits, flags, body, prev, diverged,
                   parallel, numbers, disk, was, cmd, idx, firstBranch, consistent,
                   checkErr, reply, results, unit, wg, runs, ret>>

Next ==
    \/ \E c \in Commands : Start(c)
    \/ \E n \in Validated : Reject(n)
    \/ CheckStep
    \/ CheckDone
    \/ \E a \in Answers : Prompt(a)
    \/ Dispatch
    \/ SeqStep
    \/ SeqReturn
    \/ Spawn
    \/ \E i \in Repos : UnitRun(i)
    \/ \E i \in Repos : UnitDone(i)
    \/ Wait
    \/ Report
    \/ Finish

Spec == Init /\ [][Next]_vars

\* the pull request commands alone, on a hosting side with two numbers to
\* give
PRCommands == {c \in Commands : c.name \in {"pr-status", "pr-create", "pr-close"}}

InitPR == InitWith(PRNumbers)

NextPR ==
    \/ \E c \in PRCommands : Start(c)
    \/ Reject("pr-create")
    \/ CheckStep
    \/ CheckDone
    \/ Dispatch
    \/ SeqStep
    \/ SeqReturn
    \/ Spawn
    \/ \E i \in Repos : UnitRun(i)
    \/ \E i \in Repos : UnitDone(i)
    \/ Wait
    \/ Report
    \/ Finish

SpecPR == InitPR /\ [][NextPR]_vars

\* the commands that print one payload per repository (git status, an
\* arbitrary git command, the pull request lookups), on a hosting side with
\* one number to give
ResultCommands ==
    {c \in Commands : c.name \in {"status", "git", "pr-status", "pr-create"}}

InitResults == InitWith({"#1"})

NextResults ==
    \/ \E c \in ResultCommands : Start(c)
    \/ Reject("git")
    \/ CheckStep
    \/ CheckDone
    \/ Dispatch
    \/ SeqStep
    \/ SeqReturn
    \/ Spawn
    \/ \E i \in Repos : UnitRun(i)
    \/ \E i \in Repos : UnitDone(i)
    \/ Wait
    \/ Report
    \/ Finish

SpecResults == InitResults /\ [][NextResults]_vars

\* ---------------------------------------------------- a driver call hangs
\* the driver call of the closure on handle i never returns: in parallel
\* mode inside the goroutine of the handle, in sequential mode inside the
\* loop of the main goroutine
Hang(i) ==
    /\ IF parallel THEN unit[i] = "ready"
                   ELSE pc = "seq" /\ idx = i /\ unit[i] = "none"
    /\ unit' = [unit EXCEPT ![i] = "hung"]
    /\ UNCHANGED <<cfg, handles, loadErr, commits, flags, body, prev, diverged,
                   parallel, numbers, disk, was, cmd, pc, idx, firstBranch,
                   consistent, checkErr, reply, results, wg, runs, ret, log,
                   lines, exit>>

\* the steps of a fan-out: the Go scheduler runs every goroutine that can
\* run, and a driver call that does not hang returns
FanOut ==
    \/ Dispatch
    \/ SeqStep
    \/ SeqReturn
    \/ Spawn
    \/ \E i \in Repos : UnitRun(i)
    \/ \E i \in Repos : UnitDone(i)
    \/ Wait

LiveCommands == {c \in Commands : c.name \in {"pull", "status"}}

NextLive ==
    \/ \E c \in LiveCommands : Start(c)
    \/ CheckStep
    \/ CheckDone
    \/ FanOut
    \/ \E i \in Repos : Hang(i)
    \/ Report
    \/ Finish

\* pull and status need no pull request on the hosting side
InitLive == InitWith({})

SpecLive == InitLive /\ [][NextLive]_vars /\ WF_vars(FanOut)

\* ------------------------------------------- one check after another
\* the process ends; prev keeps the reference its check returned, for the
\* comparison with what the next check returns
FinishRemembering ==
    /\ pc = "exit"
    /\ Reset(NoCommand)
    /\ prev' = IF cmd.name \in Checked /\ ~checkErr /\ idx = NRepos + 1
               THEN firstBranch ELSE prev
    /\ UNCHANGED diverged
    /\ pc' = "idle"
    /\ exit' = -1

\* pull, which calls the check, and the commands that move a repository to
\* another branch
CheckCommands ==
    {c \in Commands : c.name \in {"pull", "branch-create", "branch-checkout"}}

NextCheck ==
    \/ \E c \in CheckCommands : Start(c)
    \/ CheckStep
    \/ CheckDone
    \/ FanOut
    \/ Report
    \/ FinishRemembering

SpecCheck == InitLive /\ [][NextCheck]_vars

\* ----------------------------------------- a branch name that is empty
\* a repository in which git prints no name for HEAD
NoNameState ==
    [cloned |-> TRUE, branch |-> "", branches |-> {DefaultBranch},
     pr |-> "none"]

InitScan ==
    /\ cfg = WorkspaceConfig
    /\ Unloaded
    /\ parallel \in BOOLEAN
    /\ numbers = {}
    /\ disk \in [Repos -> {NotClonedState, DrvClone(NotClonedState),
                            NoNameState}]
    /\ Idle

NextScan ==
    \/ Start(Command("pull", "", FALSE))
    \/ CheckStep
    \/ CheckDone
    \/ FanOut
    \/ Report
    \/ Finish

SpecScan == InitScan /\ [][NextScan]_vars

\* ------------------------------------------------ inferBodyFromCommits
\* the subject lines in play (a commit may have an empty subject) and the
\* longest list of them a repository has
Subjects == {"", "fix", "add"}
MaxCommits == 2

CommitResults ==
    {NoCommitList} \cup
    {CommitList(l) : l \in UNION {[1..n -> Subjects] : n \in 0..MaxCommits}}

\* the lines of a body: the heading, the empty line, one line per subject
Heading == <<"## Changes">>
Blank == <<>>
Bullet(commit) == <<"- ", commit>>

\* --body as given on the command line
Bodies == {<<>>, <<<<"text">>>>}

\* (mutant) every non-empty subject is taken, seen before or not
RECURSIVE AddCommitsNoSeen(_, _, _)
AddCommitsNoSeen(list, k, acc) ==
    IF k > Len(list) THEN acc
    ELSE AddCommitsNoSeen(list, k + 1,
            IF list[k] # ""
            THEN [all |-> Append(acc.all, list[k]),
                  seen |-> acc.seen \cup {list[k]}]
            ELSE acc)

\* for _, commit := range commits: append what is new and not empty
RECURSIVE AddCommits(_, _, _)
AddCommits(list, k, acc) ==
    IF k > Len(list) THEN acc
    ELSE AddCommits(list, k + 1,
            IF list[k] # "" /\ list[k] \notin acc.seen
            THEN [all |-> Append(acc.all, list[k]),
                  seen |-> acc.seen \cup {list[k]}]
            ELSE acc)

\* for _, r := range ws.Repos: skip what is not cloned or fails
RECURSIVE CollectFrom(_, _, _, _)
CollectFrom(dsk, cm, i, acc) ==
    IF i > NRepos THEN acc
    ELSE IF ~IsCloned(dsk[i]) THEN CollectFrom(dsk, cm, i + 1, acc)
    ELSE IF ~cm[i].ok THEN CollectFrom(dsk, cm, i + 1, acc)
    ELSE CollectFrom(dsk, cm, i + 1, AddCommits(cm[i].list, 1, acc))

inferBodyFromCommits(dsk, cm) ==
    LET allCommits == CollectFrom(dsk, cm, 1, [all |-> <<>>, seen |-> {}]).all
    IN  IF Len(allCommits) = 0 THEN <<>>
        ELSE <<Heading, Blank>> \o
             [k \in 1..Len(allCommits) |-> Bullet(allCommits[k])]

\* prCreateCmd from its flags to the body it hands to CreatePRs, the
\* consistency check passed: the body is inferred if --infer is set and
\* no --body was given
InferBody ==
    /\ pc = "idle"
    /\ cmd' = Command("pr-create", "", FALSE)
    /\ handles' = New(cfg)
    /\ IF flags.infer /\ flags.body = <<>>
       THEN /\ body' = inferBodyFromCommits(disk, commits)
            /\ log' = [r \in Repos |->
                          IF IsCloned(disk[r])
                          THEN <<"IsCloned", "GetBranchCommits">>
                          ELSE <<"IsCloned">>]
       ELSE /\ body' = flags.body
            /\ UNCHANGED log
    /\ pc' = "dispatch"
    /\ UNCHANGED <<cfg, loadErr, commits, flags, prev, diverged, parallel, numbers,
                   disk, was, idx, firstBranch, consistent, checkErr, reply,
                   results, unit, wg, runs, ret, lines, exit>>

InitBody ==
    /\ cfg = WorkspaceConfig
    /\ handles = <<>>
    /\ loadErr = NoError
    /\ commits \in [Repos -> CommitResults]
    /\ flags \in [infer : BOOLEAN, body : Bodies]
    /\ body = <<>>
    /\ prev = ""
    /\ diverged = FALSE
    /\ parallel = TRUE
    /\ numbers = {}
    /\ disk \in [Repos -> {NotClonedState, DrvClone(NotClonedState)}]
    /\ Idle

NextBody == InferBody

SpecBody == InitBody /\ [][NextBody]_vars

\* ---------------------------------------------------------- config.Load
\* the configuration files in play: up to NRepos descriptors, a url and a
\* path either of which may be missing
Configs ==
    UNION { [1..n -> {RepoConfig(u, p) : u \in {"", "url"},
                                        p \in {"", "a", "b"}}] :
            n \in 0..NRepos }

\* workspace.Load on a file that cannot be read
LoadUnreadable ==
    /\ pc = "idle"
    /\ loadErr' = ConfigError(-1, "reading config file")
    /\ pc' = "exit"
    /\ exit' = 1
    /\ UNCHANGED <<cfg, handles, commits, flags, body, prev, diverged, parallel,
                   numbers, disk, was, cmd, idx, firstBranch, consistent,
                   checkErr, reply, results, unit, wg, runs, ret, log, lines>>

\* workspace.Load on a file Validate rejects: the error, no workspace
LoadRejected ==
    /\ pc = "idle"
    /\ Validate(cfg) # NoError
    /\ loadErr' = Validate(cfg)
    /\ pc' = "exit"
    /\ exit' = 1
    /\ UNCHANGED <<cfg, handles, commits, flags, body, prev, diverged, parallel,
                   numbers, disk, was, cmd, idx, firstBranch, consistent,
                   checkErr, reply, results, unit, wg, runs, ret, log, lines>>

\* workspace.Load on a file Validate accepts: New(cfg, root)
LoadAccepted ==
    /\ pc = "idle"
    /\ Validate(cfg) = NoError
    /\ handles' = New(cfg)
    /\ pc' = "loaded"
    /\ UNCHANGED <<cfg, loadErr, commits, flags, body, prev, diverged, parallel,
                   numbers, disk, was, cmd, idx, firstBranch, consistent,
                   checkErr, reply, results, unit, wg, runs, ret, log, lines,
                   exit>>

InitConfig ==
    /\ cfg \in Configs
    /\ Unloaded
    /\ parallel \in BOOLEAN
    /\ numbers = {}
    /\ disk = [r \in Repos |-> NotClonedState]
    /\ Idle

NextConfig == LoadUnreadable \/ LoadRejected \/ LoadAccepted

SpecConfig == InitConfig /\ [][NextConfig]_vars

\* ================================================================ claims
\* the fan-out of the invocation has returned its list to the command
Returned == pc \in {"report", "exit"} /\ results # <<>>

Has(calls, c) == \E k \in DOMAIN calls : calls[k] = c

\* the cloned repositories of dsk are all on one branch
ConsistentBranches(dsk) ==
    \A r, q \in Repos :
        dsk[r].cloned /\ dsk[q].cloned => dsk[r].branch = dsk[q].branch

\* the driver calls that change a repository or the hosting side
Mutating == {"Push", "AddAll", "Commit", "CreatePR"}

NoCall(calls) == \A r \in Repos : \A c \in calls : ~Has(log[r], c)

\* C1: whatever the workflow, the mode and the order in which the units
\* complete, the list a fan-out returns has len(Repos) entries and entry i
\* carries handle i.
C1_OrderPreserved ==
    Returned =>
        /\ Len(results) = NRepos
        /\ \A i \in Repos : results[i].Repo = i

C1_Witness ==
    /\ parallel
    /\ pc = "report"
    /\ cmd.name = "pull"
    /\ results[1].Error # "nil"
    /\ results[NRepos].Error = "nil"

\* C2: in parallel mode the fan-out returns only when every unit has
\* completed, so no slot of the returned list is still unwritten.
C2_Barrier ==
    parallel /\ Returned =>
        \A i \in Repos : unit[i] = "done" /\ results[i] # ZeroResult

C2_Witness ==
    /\ parallel
    /\ pc = "report"
    /\ cmd.name = "status"
    /\ wg = 0

\* C3: the closure is invoked exactly once on every handle whatever the
\* other handles' outcomes, in both modes, and the error a handle's closure
\* returned is the one in that handle's outcome.
C3_ContinueOnError ==
    /\ \A r \in Repos : runs[r] <= 1
    /\ Returned =>
          \A r \in Repos : runs[r] = 1 /\ results[r].Error = ret[r]

C3_Witness ==
    /\ ~parallel
    /\ pc = "report"
    /\ cmd.name = "git"
    /\ results[1].Error = "driver"
    /\ runs[NRepos] = 1
    /\ results[NRepos].Error = "nil"

\* C4: when every branch read succeeds, CheckBranchConsistency returns the
\* branch of the first cloned handle in list order (or "" when none is
\* cloned) and consistent = TRUE iff every cloned handle is on that branch;
\* handles that are not cloned do not count.
ClonedHandles == {r \in Repos : disk[r].cloned}

FirstCloned == CHOOSE r \in ClonedHandles : \A q \in ClonedHandles : r <= q

CheckReturned == pc = "check" /\ idx = NRepos + 1

C4_CheckResult ==
    CheckReturned =>
        IF ClonedHandles = {}
        THEN firstBranch = "" /\ consistent
        ELSE /\ firstBranch = disk[FirstCloned].branch
             /\ consistent <=>
                   \A r \in ClonedHandles : disk[r].branch = firstBranch

C4_Witness ==
    /\ CheckReturned
    /\ firstBranch = "feat"
    /\ ~consistent

\* C5: push, commit and pr create on repositories that are not all on one
\* branch exit non-zero, and no Push, StageAll, Commit or CreatePullRequest
\* is issued on any handle in the whole invocation.
C5_HardCheck ==
    cmd.name \in {"push", "commit", "pr-create"} /\ ~ConsistentBranches(was) =>
        /\ NoCall(Mutating)
        /\ results = <<>>
        /\ pc = "exit" => exit = 1

C5_Witness ==
    /\ cmd.name = "push"
    /\ pc = "exit"
    /\ ~checkErr
    /\ ~consistent
    /\ exit = 1

\* C6: pr close on repositories that are not all on one branch fails before
\* ClosePullRequest is invoked on any handle.
C6_PRCloseHard ==
    cmd.name = "pr-close" /\ ~ConsistentBranches(was) =>
        /\ NoCall({"ClosePR"})
        /\ pc = "exit" => exit = 1

\* C7: pull pulls no repository in an invocation in which the cloned
\* repositories are on different branches.
C7_PullChecked ==
    cmd.name = "pull" /\ ~ConsistentBranches(was) => NoCall({"Pull"})

\* C8: for status and pr status an inconsistency alone neither blocks the
\* fan-out nor makes the exit status non-zero: unless the check itself
\* failed to read a branch, the closure has run on every handle, there is an
\* outcome for each, and a non-zero exit comes with a failed outcome.
C8_WarnOnly ==
    cmd.name \in {"status", "pr-status"} /\ pc = "exit" /\ ~checkErr =>
        /\ Returned
        /\ \A r \in Repos : runs[r] = 1 /\ results[r].Repo = r
        /\ exit \in {0, 1}
        /\ exit = 1 => HasErrors(results)

C8_Witness ==
    /\ cmd.name = "pr-status"
    /\ pc = "exit"
    /\ ~consistent
    /\ ~checkErr
    /\ ~HasErrors(results)
    /\ exit = 0

\* C9: Clone on a handle that is already cloned succeeds without calling
\* the driver's clone; a clone the driver reports as done leaves the handle
\* cloned, and a cloned handle stays cloned, so a second Clone calls the
\* driver's clone on no handle whose first clone succeeded.
C9_CloneIdempotent ==
    /\ cmd.name = "clone" =>
          \A r \in Repos :
              /\ was[r].cloned /\ runs[r] = 1 =>
                    /\ results[r].Error = "nil"
                    /\ ~Has(log[r], "Clone")
                    /\ disk[r] = was[r]
              /\ Has(log[r], "Clone") /\ ret[r] = "nil" => disk[r].cloned
    /\ \A r \in Repos : was[r].cloned => disk[r].cloned

C9_Witness ==
    /\ cmd.name = "clone"
    /\ pc = "exit"
    /\ was[1].cloned
    /\ ~Has(log[1], "Clone")
    /\ ~was[NRepos].cloned
    /\ Has(log[NRepos], "Clone")
    /\ disk[NRepos].cloned

\* C10: in every workflow but Clone a handle that is not cloned gets a
\* failure outcome, and nothing but the IsCloned probe is called on it.
C10_NotCloned ==
    cmd.name # "clone" =>
        \A r \in Repos :
            ~was[r].cloned =>
                /\ \A k \in DOMAIN log[r] : log[r][k] = "IsCloned"
                /\ Returned => results[r].Error # "nil"

C10_Witness ==
    /\ cmd.name = "commit"
    /\ pc = "exit"
    /\ ~was[1].cloned
    /\ results # <<>>
    /\ results[1].Error = "not cloned"
    /\ results[NRepos].Error = "nil"

\* the cloned handle r has had the closure of the running command run on it
Ran(r) == was[r].cloned /\ runs[r] = 1

C12_DeleteCurrent ==
    cmd.name = "branch-delete" =>
        \A r \in Repos :
            Ran(r) =>
               /\ ret[r] = "cannot delete current branch" =>
                     was[r].branch = cmd.branch
               /\ was[r].branch = cmd.branch =>
                     /\ ret[r] \in {"cannot delete current branch", "driver"}
                     /\ ~Has(log[r], "DeleteBranch")
                     /\ disk[r] = was[r]
               /\ was[r].branch # cmd.branch =>
                     /\ Has(log[r], "DeleteBranch") \/ ret[r] = "driver"
                     /\ ret[r] = "nil" =>
                           /\ Has(log[r], "DeleteBranch")
                           /\ cmd.branch \notin disk[r].branches

C12_Witness ==
    /\ cmd.name = "branch-delete"
    /\ pc = "exit"
    /\ results # <<>>
    /\ results[1].Error = "cannot delete current branch"
    /\ results[NRepos].Error = "nil"
    /\ Has(log[NRepos], "DeleteBranch")
    /\ cmd.branch \in was[NRepos].branches

C15_BranchAtomic ==
    ( /\ cmd.name \in {"branch-create", "branch-delete", "branch-checkout"}
      /\ pc = "exit"
      /\ Returned )
    => \/ \A r \in Repos : was[r].cloned => ret[r] = "nil"
       \/ \A r \in Repos : was[r].cloned => disk[r] = was[r]

\* C16: in the Commit workflow the driver's Commit is invoked on a handle
\* iff the handle is cloned and HasStagedChanges, asked after the staging
\* that -a requests, answered true; a handle with nothing staged gets a nil
\* error and no commit; every Commit of the invocation is given the
\* command's message.
C16_CommitIffStaged ==
    cmd.name = "commit" =>
        \A r \in Repos :
            runs[r] = 1 =>
               /\ Has(log[r], "Commit") <=>
                     was[r].cloned /\ Has(log[r], "yes")
               /\ Has(log[r], "no") =>
                     ret[r] = "nil" /\ ~Has(log[r], "Commit")
               /\ Has(log[r], "AddAll") <=> cmd.flag /\ was[r].cloned
               /\ Has(log[r], "Commit") => Has(log[r], cmd.message)
               /\ \A m \in Messages : Has(log[r], m) => m = cmd.message

C16_Witness ==
    /\ cmd.name = "commit"
    /\ cmd.message = "m2"
    /\ pc = "exit"
    /\ exit = 0
    /\ Has(log[1], "Commit")
    /\ Has(log[1], "m2")
    /\ Has(log[NRepos], "no")

\* C17: the commit report calls a repository committed exactly when a
\* commit was created in it in this invocation, and "no changes" exactly
\* when it was skipped for having nothing staged.
C17_ReportTruthful ==
    cmd.name = "commit" /\ pc = "exit" /\ Returned =>
        \A k \in DOMAIN lines :
            /\ lines[k].kind = "committed" <=>
                  Has(log[lines[k].repo], "Commit") /\ ret[lines[k].repo] = "nil"
            /\ lines[k].kind = "no changes" <=> Has(log[lines[k].repo], "no")

\* C18: creation of pull requests is idempotent.  A handle that has no
\* pull request gets one created and an outcome with Existed = false that
\* carries the number the hosting side then holds; a handle that has one
\* (as after such a first call) gets an outcome with Existed = true that
\* carries that same number, and the driver's create is not invoked.
C18_CreatePRIdempotent ==
    cmd.name = "pr-create" =>
        \A r \in Repos :
            Ran(r) /\ ret[r] = "nil" =>
               /\ was[r].pr = "none" =>
                     /\ ~results[r].Existed
                     /\ Has(log[r], "CreatePR")
                     /\ disk[r].pr # "none"
                     /\ results[r].PR # NilPR =>
                           results[r].PR.Number = disk[r].pr
               /\ was[r].pr # "none" =>
                     /\ results[r].Existed
                     /\ results[r].PR.Number = was[r].pr
                     /\ ~Has(log[r], "CreatePR")
                     /\ disk[r] = was[r]

C18_Witness ==
    /\ cmd.name = "pr-create"
    /\ pc = "exit"
    /\ results # <<>>
    /\ was[1].pr = "#2"
    /\ results[1].Existed
    /\ results[1].PR.Number = "#2"
    /\ was[NRepos].pr = "none"
    /\ ~results[NRepos].Existed
    /\ results[NRepos].PR.Number = "#1"
    /\ disk[NRepos].pr = "#1"

\* C19: every invocation with a failure in some repository's outcome exits
\* non-zero, after the outcome of every repository has been printed.
C19_FailureExitsNonZero ==
    pc = "exit" /\ Returned /\ HasErrors(results) => exit = 1

\* C20: after a dispatched workflow every repository has exactly one line
\* in the report.
C20_OneLineEach ==
    pc = "exit" /\ Returned =>
        /\ Len(lines) = NRepos
        /\ \A i \in Repos : lines[i].repo = i

\* C21 (as stated): every completed outcome with a payload has exactly one
\* of payload and error.
C21_ExactlyOne ==
    \A r \in Repos :
        runs[r] = 1 =>
           /\ cmd.name \in {"status", "branch-list"} =>
                 (results[r].Status.ok <=> results[r].Error = "nil")
           /\ cmd.name \in {"pr-status", "pr-create"} =>
                 (results[r].PR # NilPR <=> results[r].Error = "nil")
           /\ cmd.name = "git" =>
                 (results[r].Output # "" <=> results[r].Error = "nil")

\* C21 (amended): a StatusResult has exactly one of Status and Error.  A
\* PRResult never has both a record and an error, and has neither exactly
\* when a lookup that succeeded found no pull request.  A GitResult holds
\* whatever the git process wrote, with or without an error; only the
\* "not cloned" failure comes without output.
C21_PayloadOrError ==
    \A r \in Repos :
        runs[r] = 1 =>
           /\ cmd.name \in {"status", "branch-list"} =>
                 (results[r].Status.ok <=> results[r].Error = "nil")
           /\ cmd.name \in {"pr-status", "pr-create"} =>
                 /\ results[r].PR # NilPR => results[r].Error = "nil"
                 /\ results[r].PR = NilPR /\ results[r].Error = "nil" =>
                       /\ log[r][Len(log[r])] = "GetPR"
                       /\ cmd.name = "pr-status" => disk[r].pr = "none"
                       /\ cmd.name = "pr-create" => Has(log[r], "CreatePR")
           /\ cmd.name = "git" =>
                 (results[r].Error = "not cloned" => results[r].Output = "")

C21_Witness ==
    /\ cmd.name = "pr-status"
    /\ pc = "report"
    /\ results[1].PR = NilPR
    /\ results[1].Error = "nil"
    /\ results[NRepos].PR # NilPR

\* C22: Workspace.Push(force = true) is invoked only after the operator
\* answered y or Y; on any other answer or a read error no repository is
\* pushed and the command ends; the question is asked only by push --force
\* and only after the consistency check has passed, never inside the
\* fan-out.
C22_ForcePushConfirmed ==
    /\ pc = "prompt" \/ reply # "" =>
          /\ cmd.name = "push" /\ cmd.flag
          /\ consistent /\ ~checkErr
          /\ ConsistentBranches(was)
    /\ pc = "prompt" => idx = NRepos + 1 /\ results = <<>>
    /\ cmd.name = "push" /\ cmd.flag /\ reply \notin {"y", "Y"} =>
          /\ NoCall({"Push"})
          /\ results = <<>>
          /\ pc \in {"check", "prompt", "exit"}
    /\ reply \in {"n", "error"} => pc = "exit" /\ exit = 0

C22_Witness ==
    /\ cmd.name = "push"
    /\ cmd.flag
    /\ reply = "Y"
    /\ pc = "exit"
    /\ Has(log[1], "Push")
    /\ Has(log[NRepos], "Push")

\* C23: a command that fails a pre-condition (a required argument missing,
\* an inconsistency where consistency is required) ends with an error
\* before its fan-out and with every repository as it was; a command that
\* ends without a fan-out has made only IsCloned and CurrentBranch calls;
\* a fan-out that was dispatched runs on every handle before the command
\* ends.
C23_FailFast ==
    /\ ~cmd.given =>
          /\ pc = "exit" /\ exit = 1 /\ results = <<>>
          /\ \A r \in Repos : log[r] = <<>>
    /\ cmd.name \in {"push", "commit", "pr-create"} /\ results # <<>> =>
          ConsistentBranches(was)
    /\ pc = "exit" /\ results = <<>> =>
          /\ disk = was
          /\ \A r \in Repos : \A k \in DOMAIN log[r] :
                log[r][k] \in {"IsCloned", "CurrentBranch"}
          /\ exit = 1 \/ reply \in {"n", "error"}
    /\ pc = "exit" /\ results # <<>> =>
          /\ Len(results) = NRepos
          /\ \A r \in Repos : runs[r] = 1

C23_Witness ==
    /\ cmd.name = "pr-create"
    /\ pc = "exit"
    /\ exit = 1
    /\ results = <<>>
    /\ ~consistent
    /\ ~checkErr
    /\ disk = was

C25_ReadErrorAborts ==
    checkErr =>
        /\ pc = "exit" /\ exit = 1
        /\ firstBranch = "" /\ ~consistent
        /\ results = <<>>
        /\ cmd.name \in {"pull", "push", "commit", "pr-status", "pr-create",
                          "pr-close"}
        /\ log[idx] = <<"IsCloned", "CurrentBranch">>
        /\ \A r \in Repos : r > idx => log[r] = <<>>
        /\ \A r \in Repos : runs[r] = 0
        /\ disk = was

C25_Witness ==
    /\ checkErr
    /\ cmd.name = "pull"
    /\ idx = 1
    /\ disk[NRepos].cloned
    /\ log[NRepos] = <<>>

\* C26: in sequential mode the closure runs on the handles in list order,
\* one at a time: when the loop is at handle i the closure has run once on
\* every earlier handle and its result is in that handle's slot, and it has
\* not run on handle i or any later one.
C26_SequentialOrder ==
    ~parallel =>
        /\ wg = 0
        /\ \A r \in Repos : unit[r] = "none"
        /\ pc = "seq" =>
              \A r \in Repos :
                  IF r < idx
                  THEN /\ runs[r] = 1
                       /\ results[r].Repo = r
                       /\ results[r].Error = ret[r]
                  ELSE /\ runs[r] = 0
                       /\ results[r] = ZeroResult
                       /\ disk[r] = was[r]

C26_Witness ==
    /\ ~parallel
    /\ pc = "seq"
    /\ idx = NRepos
    /\ runs[1] = 1
    /\ results[1].Error # "nil"
    /\ runs[NRepos] = 0

\* C27: in parallel mode the unit of handle i writes slot i, once, and
\* touches nothing of another handle: a slot whose unit has not run yet is
\* as make() left it and its repository is as it was, a slot whose unit has
\* run holds that unit's result, and the caller has the list only when
\* every unit is done.
C27_DisjointSlots ==
    parallel /\ results # <<>> =>
        \A r \in Repos :
            /\ unit[r] \in {"none", "ready"} =>
                  /\ runs[r] = 0
                  /\ results[r] = ZeroResult
                  /\ disk[r] = was[r]
            /\ unit[r] \in {"wrote", "done"} =>
                  /\ runs[r] = 1
                  /\ results[r].Repo = r
                  /\ results[r].Error = ret[r]
            /\ pc \in {"report", "exit"} => unit[r] = "done"

C27_Witness ==
    /\ parallel
    /\ pc = "wait"
    /\ unit[1] = "ready"
    /\ results[1] = ZeroResult
    /\ unit[NRepos] = "done"
    /\ results[NRepos].Repo = NRepos

\* the state of the workflow instance: NotStarted, ConsistencyChecked,
\* Dispatched, Aggregated, Reported or Failed
Phase(p) ==
    CASE p = "idle" -> 0
      [] p \in {"check", "prompt"} -> 1
      [] p \in {"dispatch", "seq", "spawn", "wait"} -> 2
      [] p = "report" -> 3
      [] p = "exit" -> 4

\* the driver calls that only read
Reads == {"IsCloned", "CurrentBranch", "BranchExists", "HasStagedChanges",
          "yes", "no", "Status", "GetPR"}

\* C28: a workflow instance only moves forward through NotStarted,
\* ConsistencyChecked (for the commands that check), Dispatched,
\* Aggregated, Reported; it fails only from before Dispatched, with no
\* driver call but reads made; and once the closure has run on a handle no
\* further call changes that repository (no rollback).
C28_ForwardOnly ==
    [][ /\ Phase(pc') >= Phase(pc) \/ (pc = "exit" /\ pc' = "idle")
        /\ pc' = "dispatch" /\ pc # "dispatch" /\
           cmd'.name \in {"pull", "push", "commit", "pr-status", "pr-create",
                          "pr-close"}
           => pc \in {"check", "prompt"}
        /\ pc' = "exit" /\ pc # "exit" /\ results' = <<>> =>
              /\ Phase(pc) <= 1
              /\ disk' = was'
              /\ \A r \in Repos : \A k \in DOMAIN log'[r] :
                    log'[r][k] \in Reads
        /\ \A r \in Repos :
              runs[r] = 1 /\ runs'[r] = 1 =>
                 /\ disk'[r] = disk[r]
                 /\ Len(log'[r]) >= Len(log[r])
                 /\ \A k \in DOMAIN log'[r] :
                       IF k <= Len(log[r]) THEN log'[r][k] = log[r][k]
                       ELSE log'[r][k] \in Reads
      ]_vars

C28_Witness ==
    /\ cmd.name = "commit"
    /\ cmd.given
    /\ pc = "exit"
    /\ exit = 1
    /\ results = <<>>
    /\ ~consistent
    /\ ~checkErr

\* some driver call of the fan-out does not return
Hung == \E r \in Repos : unit[r] = "hung"

\* C29: a fan-out returns iff every unit completes.  When no driver call
\* hangs a dispatched fan-out eventually returns, in both modes; when the
\* driver call of one unit does not return the fan-out never returns,
\* whatever the other units have done.
C29_ReturnsIffAllComplete ==
    /\ (pc = "dispatch") ~> (pc = "report" \/ Hung)
    /\ [](Hung => [](pc \notin {"report", "exit", "idle"}))

C29_Witness ==
    /\ parallel
    /\ pc = "wait"
    /\ unit[1] = "hung"
    /\ \A r \in Repos : r # 1 => unit[r] = "done"

\* the place of the first call c in a log, 0 when there is none
Pos(calls, c) ==
    IF Has(calls, c)
    THEN CHOOSE k \in DOMAIN calls :
            calls[k] = c /\ \A j \in 1..(k - 1) : calls[j] # c
    ELSE 0

\* C30: on a cloned handle the Commit workflow calls StageAll (only with
\* addAll), then HasStagedChanges, then Commit; a failed StageAll or a
\* failed HasStagedChanges is the handle's error and no Commit follows;
\* without addAll StageAll is never called.
C30_CommitOrder ==
    cmd.name = "commit" =>
        \A r \in Repos :
            Ran(r) =>
               /\ Has(log[r], "AddAll") <=> cmd.flag
               /\ Has(log[r], "AddAll") /\ Has(log[r], "HasStagedChanges") =>
                     Pos(log[r], "AddAll") < Pos(log[r], "HasStagedChanges")
               /\ Has(log[r], "Commit") =>
                     /\ Has(log[r], "yes")
                     /\ Pos(log[r], "HasStagedChanges") # 0
                     /\ Pos(log[r], "HasStagedChanges") < Pos(log[r], "Commit")
               /\ Has(log[r], "AddAll") /\ ~Has(log[r], "HasStagedChanges") =>
                     ret[r] = "driver" /\ ~Has(log[r], "Commit")
               /\ ( /\ Has(log[r], "HasStagedChanges")
                    /\ ~Has(log[r], "yes")
                    /\ ~Has(log[r], "no") ) =>
                     ret[r] = "driver" /\ ~Has(log[r], "Commit")

C30_Witness ==
    /\ cmd.name = "commit"
    /\ cmd.flag
    /\ pc = "exit"
    /\ results # <<>>
    /\ results[1].Error = "driver"
    /\ Has(log[1], "AddAll")
    /\ ~Has(log[1], "HasStagedChanges")
    /\ Has(log[NRepos], "Commit")

\* C31: CreatePRs does not call the driver's create on a handle whose
\* lookup returned a record, be it open, closed or merged; a failed lookup
\* is the handle's outcome and no create follows it.
C31_NoCreateOverRecord ==
    cmd.name = "pr-create" =>
        \A r \in Repos :
            runs[r] = 1 =>
               /\ Has(log[r], "CreatePR") =>
                     /\ was[r].pr = "none"
                     /\ ~results[r].Existed
                     /\ results[r].Error # "checking existing PR"
                     /\ Pos(log[r], "GetPR") # 0
                     /\ Pos(log[r], "GetPR") < Pos(log[r], "CreatePR")
               /\ results[r].Existed =>
                     /\ results[r].PR.State \in PRRecords
                     /\ log[r][Len(log[r])] = "GetPR"
                     /\ ~Has(log[r], "CreatePR")
               /\ results[r].Error = "checking existing PR" =>
                     /\ log[r][Len(log[r])] = "GetPR"
                     /\ ~Has(log[r], "CreatePR")
                     /\ results[r].PR = NilPR
                     /\ disk[r] = was[r]

C31_Witness ==
    /\ cmd.name = "pr-create"
    /\ pc = "report"
    /\ results[1].Existed
    /\ results[1].PR.State = "MERGED"
    /\ ~Has(log[1], "CreatePR")
    /\ results[NRepos].Error = "checking existing PR"
    /\ ~Has(log[NRepos], "CreatePR")

\* C33: the handle list is built once per invocation, handle i from
\* descriptor i of the configuration, and no step of any workflow changes
\* the list, the configuration or the Parallel setting.
C33_HandlesReadOnly ==
    [][ /\ cfg' = cfg
        /\ parallel' = parallel
        /\ handles' # <<>> =>
              /\ Len(handles') = Len(cfg)
              /\ \A i \in 1..Len(cfg) : handles'[i].Config = cfg[i]
        /\ pc # "idle" /\ pc' # "idle" => handles' = handles
        /\ pc' \in {"check", "prompt", "dispatch", "seq", "spawn", "wait",
                     "report"} => handles' # <<>>
      ]_vars

C33_Witness ==
    /\ cmd.name = "branch-create"
    /\ pc = "exit"
    /\ results # <<>>
    /\ disk # was
    /\ Len(handles) = NRepos
    /\ handles[1].Config.Path = Paths[1]
    /\ handles[NRepos].Config.Path = Paths[NRepos]

\* the descriptor at i is one Validate refuses
Offends(repos, i) ==
    \/ repos[i].URL = ""
    \/ repos[i].Path = ""
    \/ \E j \in 1..(i - 1) : repos[j].Path = repos[i].Path

\* C35: a configuration that Load accepts has a url and a path in every
\* descriptor and no path twice; one that has not is rejected with an error
\* that names the first such descriptor (counted from 0), and no workspace
\* is built from it.
C35_ConfigValidated ==
    /\ pc = "loaded" =>
          /\ \A i \in 1..Len(cfg) : ~Offends(cfg, i)
          /\ loadErr = NoError
          /\ Len(handles) = Len(cfg)
    /\ (\E i \in 1..Len(cfg) : Offends(cfg, i)) =>
          /\ pc \in {"idle", "exit"}
          /\ handles = <<>>
          /\ pc = "exit" /\ loadErr.msg # "reading config file" =>
                /\ loadErr.repo + 1 \in 1..Len(cfg)
                /\ Offends(cfg, loadErr.repo + 1)
                /\ \A j \in 1..loadErr.repo : ~Offends(cfg, j)
    /\ pc = "exit" /\ (\A i \in 1..Len(cfg) : ~Offends(cfg, i)) =>
          loadErr.msg = "reading config file"

C35_Witness ==
    /\ pc = "exit"
    /\ Len(cfg) = 2
    /\ cfg[1] = RepoConfig("url", "a")
    /\ cfg[2] = RepoConfig("url", "a")
    /\ loadErr = ConfigError(1, "duplicate path")
    /\ handles = <<>>

\* the subject lines of the repositories that are cloned and whose lookup
\* succeeded, from handle i on, one list after the other
RECURSIVE SubjectsFrom(_)
SubjectsFrom(i) ==
    IF i > NRepos THEN <<>>
    ELSE (IF disk[i].cloned /\ commits[i].ok THEN commits[i].list ELSE <<>>)
         \o SubjectsFrom(i + 1)

\* C32: the inferred body lists every distinct non-empty subject of the
\* cloned repositories once, in the order of first occurrence over the
\* handles in list order; a repository that is not cloned or whose lookup
\* fails adds nothing; without a subject the body is empty; and the body
\* is inferred only under --infer without --body.
C32_InferredBody ==
    pc = "dispatch" =>
        LET flat == SubjectsFrom(1)
            subj == {flat[k] : k \in DOMAIN flat} \ {""}
            bullets == IF body = <<>> THEN <<>> ELSE SubSeq(body, 3, Len(body))
        IN  IF flags.infer /\ flags.body = <<>>
            THEN /\ body = <<>> <=> subj = {}
                 /\ body # <<>> => body[1] = Heading /\ body[2] = Blank
                 /\ Len(bullets) = Cardinality(subj)
                 /\ \A k \in DOMAIN bullets :
                       /\ bullets[k][1] = "- "
                       /\ bullets[k][2] \in subj
                 /\ \A j, k \in DOMAIN bullets :
                       j < k => Pos(flat, bullets[j][2]) < Pos(flat, bullets[k][2])
            ELSE /\ body = flags.body
                 /\ \A r \in Repos : ~Has(log[r], "GetBranchCommits")

C32_Witness ==
    /\ pc = "dispatch"
    /\ flags.infer
    /\ flags.body = <<>>
    /\ disk[1].cloned
    /\ disk[NRepos].cloned
    /\ commits[1] = CommitList(<<"fix", "add">>)
    /\ commits[NRepos] = CommitList(<<"add", "">>)
    /\ body = <<Heading, Blank, Bullet("fix"), Bullet("add")>>

\* C34: the check only reads (IsCloned, CurrentBranch) and leaves every
\* repository as it is, and what it returns is a function of the
\* repositories as they are when it is called: after a switch to another
\* branch it returns the new branch, whatever the check before returned.
C34_CheckIsFresh ==
    /\ pc = "check" =>
          /\ disk = was
          /\ \A r \in Repos : \A k \in DOMAIN log[r] :
                log[r][k] \in {"IsCloned", "CurrentBranch"}
    /\ CheckReturned =>
          /\ firstBranch = IF ClonedHandles = {} THEN ""
                           ELSE was[FirstCloned].branch
          /\ consistent <=> ConsistentBranches(was)

C34_Witness ==
    /\ CheckReturned
    /\ prev = "main"
    /\ firstBranch = "feat"
    /\ consistent
    /\ \A r \in Repos : disk[r].cloned

\* C36: once the first cloned handle has been read its branch is the
\* reference, an empty name included: with the first cloned handle on ""
\* the check returns "" and is consistent only if every cloned handle is
\* on "".
C36_EmptyReferenceKept ==
    CheckReturned /\ ClonedHandles # {} /\ disk[FirstCloned].branch = "" =>
        /\ firstBranch = ""
        /\ consistent <=> \A r \in ClonedHandles : disk[r].branch = ""

\* C37: with each handle's driver calls touching its own repository only,
\* a parallel run gives what a sequential run gives: in either mode, and
\* in any interleaving, the closure on a handle starts from the repository
\* as it was when the fan-out began, and what the fan-out returns is, for
\* every handle, one outcome of the closure on that state: the result in
\* the handle's slot, the repository as that outcome leaves it, the calls
\* that outcome makes.
C37_ParallelIsSequential ==
    /\ results # <<>> =>
          \A r \in Repos : runs[r] = 0 => disk[r] = was[r]
    /\ Returned =>
          \A r \in Repos :
              \E o \in Op(cmd, was[r]) :
                  /\ disk[r] = o.d
                  /\ results[r] = MkResult(r, o)
                  /\ ret[r] = o.Error
                  /\ \E k \in 0..(Len(log[r]) - Len(o.calls)) :
                        SubSeq(log[r], k + 1, k + Len(o.calls)) = o.calls

C37_Witness ==
    /\ parallel
    /\ pc = "report"
    /\ cmd.name = "branch-checkout"
    /\ disk[1] # was[1]
    /\ results[1].Error = "nil"
    /\ results[NRepos].Error = "driver"
    /\ disk[NRepos] = was[NRepos]

\* ------------------------------------ branch batches, then push and others
\* the batch of the invocation had a handle that succeeded and one that
\* failed
Mixed ==
    /\ results # <<>>
    /\ \E r \in Repos : runs[r] = 1 /\ results[r].Error = "nil"
    /\ \E r \in Repos : runs[r] = 1 /\ results[r].Error # "nil"

AllCloned(dsk) == \A r \in Repos : dsk[r].cloned

\* the process ends; diverged records a CreateBranch batch with mixed
\* outcomes on repositories that were all cloned and on one branch, until
\* a Checkout batch leaves the cloned repositories on one branch
FinishTracking ==
    /\ pc = "exit"
    /\ Reset(NoCommand)
    /\ diverged' =
          IF /\ cmd.name = "branch-create"
             /\ Mixed
             /\ AllCloned(was)
             /\ ConsistentBranches(was)
          THEN TRUE
          ELSE IF /\ cmd.name = "branch-checkout"
                  /\ results # <<>>
                  /\ ConsistentBranches(disk)
               THEN FALSE
               ELSE diverged
    /\ UNCHANGED prev
    /\ pc' = "idle"
    /\ exit' = -1

BranchCommands ==
    {c \in Commands : c.name \in {"branch-create", "branch-checkout"}} \cup
    {Command("push", "", FALSE), CommitCommand(FALSE, "m1"),
     Command("pr-create", "", FALSE)}

NextBranch ==
    \/ \E c \in BranchCommands : Start(c)
    \/ CheckStep
    \/ CheckDone
    \/ FanOut
    \/ Report
    \/ FinishTracking

SpecBranch == InitLive /\ [][NextBranch]_vars

====
